---- MODULE Spec2Model ----
(***************************************************************************)
(* ReadOnlyFileStream (be/src/olap/file_stream.cpp): the lazy, seekable    *)
(* reader of a block-compressed byte stream.  A stream is a bounded file   *)
(* region holding blocks; each block is a StreamHead (type, length)        *)
(* followed by length payload bytes.  The reader keeps one decoded block   *)
(* resident in _uncompressed, which aliases _compressed_helper; RAW        *)
(* blocks are taken over by exchanging _compressed_helper with the buffer  *)
(* in the caller's *_shared_buffer slot.                                   *)
(*                                                                         *)
(* Buffers are heap objects named by identities; a pointer is a buffer     *)
(* identity or NULL.  A reader is a record of its fields, and every        *)
(* method is an operator from a reader state to [st, res].                 *)
(***************************************************************************)
EXTENDS Integers, Sequences, FiniteSets, TLC

\* ------------------------------------------------------------- bounds
\* the constructor's compress_buffer_size argument
CompressBufferSize == 2
\* well-formed blocks at the head of a generated file region
MaxBlocks == 2
\* well-formed blocks of a region read sequentially to its end
MaxSeqBlocks == 3
\* calls made on one reader in one behaviour
MaxOps == 2

\* ------------------------------------------------------------- values
NULL == "nullptr"
BufIds == {"bufA", "bufB"}

OK == "OK"
StreamEof == "StreamEof"
IoError == "IoError"
OutOfBounds == "OutOfBounds"
DecompressError == "DecompressError"
PositionError == "PositionError"

\* std::numeric_limits<uint64_t>::max(): no file offset of a region equals it
NoPosition == -1

\* sizeof(StreamHead): one byte of type, one byte of length
HeaderSize == 2
\* StreamHead::UNCOMPRESSED and StreamHead::COMPRESSED as stored in the type byte
UNCOMPRESSED == 0
COMPRESSED == 1

\* _compress_buffer_size, as the constructor computes it
compress_buffer_size == CompressBufferSize + HeaderSize

Min(a, b) == IF a <= b THEN a ELSE b

RECURSIVE Repeat(_, _)
Repeat(v, n) == IF n <= 0 THEN <<>> ELSE <<v>> \o Repeat(v, n - 1)

Drop(s, n) == SubSeq(s, Min(n, Len(s)) + 1, Len(s))

\* ------------------------------------------------------------- StorageByteBuffer
\* a buffer: backing array of compress_buffer_size bytes, position, limit
NewBuffer == [data |-> Repeat(0, compress_buffer_size), position |-> 0, limit |-> 0]

remaining(b) == b.limit - b.position

\* the decoded bytes a buffer exposes: array()[0 .. limit)
Contents(b) == SubSeq(b.data, 1, b.limit)

\* array() filled with bytes from index 0; the tail keeps what it held
WriteArray(b, bytes) ==
    [b EXCEPT !.data = bytes \o SubSeq(b.data, Len(bytes) + 1, Len(b.data))]

\* set_position(n): fails if n > limit
set_position(b, n) ==
    IF n <= b.limit
    THEN [buf |-> [b EXCEPT !.position = n], res |-> OK]
    ELSE [buf |-> b, res |-> PositionError]

\* set_limit(n): the position never stays beyond the limit
set_limit(b, n) ==
    [b EXCEPT !.limit = n, !.position = Min(b.position, n)]

\* ------------------------------------------------------------- FileCursor
\* eof(): the cursor is at its bound
CursorEof(f, used) == used = Len(f)

\* remain()
CursorRemain(f, used) == IF used > Len(f) THEN 0 ELSE Len(f) - used

\* read(buf, n): n bytes at the cursor, which advances; fails beyond the bound
CursorRead(f, used, n) ==
    IF used + n <= Len(f)
    THEN [res |-> OK, bytes |-> SubSeq(f, used + 1, used + n), used |-> used + n]
    ELSE [res |-> IoError, bytes |-> <<>>, used |-> used]

\* seek(absolute_offset)
CursorSeek(f, used, offset) == offset

\* ------------------------------------------------------------- StreamHead
ParseHead(bytes) == [type |-> bytes[1], length |-> bytes[2]]

\* ------------------------------------------------------------- Decompressor
\* The pluggable decompressor: the source's valid region is a list of
\* (count, value) runs; the decoded block is each value repeated count
\* times.  It fails on a region of odd length and on a decoded block longer
\* than the destination's limit; on success it sets the destination's limit
\* to the decoded length.
RECURSIVE RunDecode(_)
RunDecode(src) ==
    IF Len(src) < 2 THEN <<>>
    ELSE Repeat(src[2], src[1]) \o RunDecode(SubSeq(src, 3, Len(src)))

Decompress(src, dst) ==
    LET region == SubSeq(src.data, src.position + 1, src.limit)
        out == RunDecode(region)
    IN IF Len(region) % 2 # 0 \/ Len(out) > remaining(dst)
       THEN [res |-> DecompressError, dst |-> dst]
       ELSE [res |-> OK, dst |-> set_limit(WriteArray(dst, out), Len(out))]

\* ------------------------------------------------------------- ReadOnlyFileStream
VARIABLES
    file,                          \* the bytes of the bounded file region
    file_cursor,                   \* _file_cursor.position()
    shared_buffer,                 \* *_shared_buffer, the caller's slot
    compressed_helper,             \* _compressed_helper
    uncompressed,                  \* _uncompressed
    current_compress_position,     \* _current_compress_position
    heap,                          \* the buffers, by identity
    compressed_bytes_read,         \* _stats->compressed_bytes_read
    uncompressed_bytes_read,       \* _stats->uncompressed_bytes_read
    last,                          \* the last call: its name, arguments, status, file accesses
    nops,                          \* calls made so far
    hist,                          \* sequential reading: blocks loaded and bytes consumed
    skipping,                      \* a skip call in progress: its place and its locals
    other                          \* a second reader on the same shared slot

vars == <<file, file_cursor, shared_buffer, compressed_helper, uncompressed,
          current_compress_position, heap, compressed_bytes_read,
          uncompressed_bytes_read, last, nops, hist, skipping, other>>

\* the reader and what it points to, as one record, at the start of a call
Reader ==
    [file_cursor |-> file_cursor,
     shared_buffer |-> shared_buffer,
     compressed_helper |-> compressed_helper,
     uncompressed |-> uncompressed,
     current_compress_position |-> current_compress_position,
     heap |-> heap,
     compressed_bytes_read |-> compressed_bytes_read,
     uncompressed_bytes_read |-> uncompressed_bytes_read,
     reads |-> 0,
     seeks |-> 0,
     pulls |-> 0]

\* an exhausted buffer counts as data
has_data_or_empty(s) ==
    s.uncompressed # NULL /\ remaining(s.heap[s.uncompressed]) >= 0

\* a last unread byte does not count as data
has_data_but_last(s) ==
    s.uncompressed # NULL /\ remaining(s.heap[s.uncompressed]) > 1

\* line 51: _uncompressed != nullptr && _uncompressed->remaining() > 0
has_data(s) ==
    s.uncompressed # NULL /\ remaining(s.heap[s.uncompressed]) > 0

\* the end of the region is only noticed by the header read that fails there
at_eof_unchecked(f, s) == FALSE

\* line 53: _file_cursor.eof()
at_eof(f, s) == CursorEof(f, s.file_cursor)

\* a block of exactly the capacity is turned away
overflow_at_capacity(length) == length >= compress_buffer_size

\* line 166: length > _compress_buffer_size
overflow(length) == length > compress_buffer_size

\* _fill_compressed(length) reporting a payload cut short as the end of the stream
fill_compressed_short_is_eof(f, s, length) ==
    IF overflow(length) THEN [st |-> s, res |-> OutOfBounds]
    ELSE LET r == CursorRead(f, s.file_cursor, length)
             s1 == [s EXCEPT !.reads = @ + 1]
         IN IF r.res # OK THEN [st |-> s1, res |-> StreamEof]
            ELSE LET b == WriteArray(s1.heap[s1.shared_buffer], r.bytes)
                     b1 == [b EXCEPT !.position = 0]
                     b2 == set_limit(b1, length)
                 IN [st |-> [s1 EXCEPT !.file_cursor = r.used,
                                       !.heap[s1.shared_buffer] = b2],
                     res |-> OK]

\* _fill_compressed(length)
fill_compressed(f, s, length) ==
    IF overflow(length) THEN [st |-> s, res |-> OutOfBounds]
    ELSE LET r == CursorRead(f, s.file_cursor, length)
             s1 == [s EXCEPT !.reads = @ + 1]
         IN IF r.res # OK THEN [st |-> s1, res |-> r.res]
            ELSE LET b == WriteArray(s1.heap[s1.shared_buffer], r.bytes)
                     b1 == [b EXCEPT !.position = 0]
                     b2 == set_limit(b1, length)
                 IN [st |-> [s1 EXCEPT !.file_cursor = r.used,
                                       !.heap[s1.shared_buffer] = b2],
                     res |-> OK]

\* a RAW block is published without the exchange: the helper keeps its own buffer
exchange_buffers_dropped(s) == s

\* the helper takes the shared buffer and the slot keeps it: one buffer, two names
exchange_buffers_aliased(s) == [s EXCEPT !.compressed_helper = s.shared_buffer]

\* lines 78-80: _compressed_helper and *_shared_buffer exchange their buffers
exchange_buffers(s) ==
    [s EXCEPT !.compressed_helper = s.shared_buffer,
              !.shared_buffer = s.compressed_helper]

\* lines 82-83: the helper is reset to take a decoded block
reset_helper(s) ==
    LET b == s.heap[s.compressed_helper]
        b1 == [b EXCEPT !.position = 0]
    IN [s EXCEPT !.heap[s.compressed_helper] = set_limit(b1, compress_buffer_size)]

\* the resident block is counted by its buffer's capacity, not by its limit
publish_counts_capacity(s, file_cursor_used) ==
    [s EXCEPT !.uncompressed_bytes_read = @ + Len(s.heap[s.compressed_helper].data),
              !.uncompressed = s.compressed_helper,
              !.current_compress_position = file_cursor_used]

\* the shared slot's buffer, not the helper, becomes the resident block
publish_shared(s, file_cursor_used) ==
    [s EXCEPT !.uncompressed_bytes_read = @ + s.heap[s.compressed_helper].limit,
              !.uncompressed = s.shared_buffer,
              !.current_compress_position = file_cursor_used]

\* lines 93-96: the helper becomes the resident block
publish(s, file_cursor_used) ==
    [s EXCEPT !.uncompressed_bytes_read = @ + s.heap[s.compressed_helper].limit,
              !.uncompressed = s.compressed_helper,
              !.current_compress_position = file_cursor_used]

\* lines 77-92: the block just filled is taken over (RAW) or decoded
decode_block(s, header) ==
    IF header.type = UNCOMPRESSED
    THEN [st |-> exchange_buffers(s), res |-> OK]
    ELSE LET s1 == reset_helper(s)
             d == Decompress(s1.heap[s1.shared_buffer], s1.heap[s1.compressed_helper])
         IN [st |-> [s1 EXCEPT !.heap[s1.compressed_helper] = d.dst], res |-> d.res]

\* _assure_data()
assure_data(f, s) ==
    IF has_data(s) THEN [st |-> s, res |-> OK]
    ELSE IF at_eof(f, s) THEN [st |-> s, res |-> StreamEof]
    ELSE
      LET file_cursor_used == s.file_cursor
          h == CursorRead(f, s.file_cursor, HeaderSize)
          s1 == [s EXCEPT !.reads = @ + 1, !.file_cursor = h.used]
      IN IF h.res # OK THEN [st |-> s1, res |-> h.res]
         ELSE
           LET header == ParseHead(h.bytes)
               fc == fill_compressed(f, s1, header.length)
           IN IF fc.res # OK THEN fc
              ELSE
                LET s2 == [fc.st EXCEPT !.compressed_bytes_read =
                                           @ + HeaderSize + header.length]
                    d == decode_block(s2, header)
                IN IF d.res # OK THEN d
                   ELSE [st |-> publish(d.st, file_cursor_used), res |-> OK]

\* every seek goes back to the file
seek_never_reuses(s, compressed_position) == FALSE

\* any resident block is taken for the one asked for
seek_reuses_resident(s, compressed_position) == s.uncompressed # NULL

\* line 106: the resident block is the one asked for
seek_reuses_block(s, compressed_position) ==
    s.current_compress_position = compressed_position /\ s.uncompressed # NULL

\* seek(position): the two values pulled from the position provider
seek(f, s, compressed_position, uncompressed_bytes) ==
    LET a == IF seek_reuses_block(s, compressed_position)
             THEN [st |-> s, res |-> OK]
             ELSE assure_data(f,
                    [s EXCEPT !.file_cursor = CursorSeek(f, @, compressed_position),
                              !.seeks = @ + 1,
                              !.uncompressed = NULL])
    IN IF a.res # OK THEN a
       ELSE LET p == set_position(a.st.heap[a.st.uncompressed], uncompressed_bytes)
            IN [st |-> [a.st EXCEPT !.heap[a.st.uncompressed] = p.buf],
                res |-> p.res]

\* PositionProvider::get_next(): the next value of the position source
get_next(position) ==
    [value |-> position.values[position.next + 1],
     position |-> [position EXCEPT !.next = @ + 1]]

\* seek(position) taking the in-block offset first and the block offset second
seek_position_swapped(f, s, position) ==
    LET first == get_next(position)
        second == get_next(first.position)
        a == seek(f, s, second.value, first.value)
    IN [a EXCEPT !.st.pulls = second.position.next - position.next]

\* seek(position), lines 101-137: lines 104-105 pull the block's file offset
\* and then the in-block offset, before any branch; the rest is seek above
seek_position(f, s, position) ==
    LET first == get_next(position)
        second == get_next(first.position)
        a == seek(f, s, first.value, second.value)
    IN [a EXCEPT !.st.pulls = second.position.next - position.next]

\* the loop of skip with the end of the stream reported as success
RECURSIVE skip_loop_masks_eof(_, _, _)
skip_loop_masks_eof(f, s, byte_to_skip) ==
    LET b == s.heap[s.uncompressed]
        skip_byte == Min(remaining(b), byte_to_skip)
        p == set_position(b, b.position + skip_byte)
        s1 == [s EXCEPT !.heap[s.uncompressed] = p.buf]
        left == byte_to_skip - skip_byte
        a == assure_data(f, s1)
    IN IF left # 0 /\ a.res = OK THEN skip_loop_masks_eof(f, a.st, left)
       ELSE IF a.res = StreamEof THEN [a EXCEPT !.res = OK]
       ELSE a

\* lines 153-158: one pass through the body of the do-while of skip
skip_pass(f, s, byte_to_skip) ==
    LET b == s.heap[s.uncompressed]
        skip_byte == Min(remaining(b), byte_to_skip)
        p == set_position(b, b.position + skip_byte)
        s1 == [s EXCEPT !.heap[s.uncompressed] = p.buf]
        a == assure_data(f, s1)
    IN [st |-> a.st, res |-> a.res, byte_to_skip |-> byte_to_skip - skip_byte]

\* lines 152-160: the do-while loop of skip
RECURSIVE skip_loop(_, _, _)
skip_loop(f, s, byte_to_skip) ==
    LET a == skip_pass(f, s, byte_to_skip)
    IN IF a.byte_to_skip # 0 /\ a.res = OK
       THEN skip_loop(f, a.st, a.byte_to_skip)
       ELSE [st |-> a.st, res |-> a.res]

\* skip(skip_length)
skip(f, s, skip_length) ==
    LET a == assure_data(f, s)
    IN IF a.res # OK THEN a ELSE skip_loop(f, a.st, skip_length)

\* available() answering with the unread bytes of the resident block
available_of_decoded ==
    IF uncompressed = NULL THEN 0 ELSE remaining(heap[uncompressed])

\* available()
available == CursorRemain(file, file_cursor)

\* ------------------------------------------------------------- file regions
\* a block as stored: the StreamHead, then the payload
Block(type, payload) == <<type, Len(payload)>> \o payload

\* n payload bytes: 2, 1, 2, 1, ...
Ramp(n) == [i \in 1..n |-> 1 + (i % 2)]

\* well-formed blocks a region is built of: RAW of length 0 and 2, and
\* COMPRESSED decoding to <<1, 2>>
ValidBlocks ==
    { Block(UNCOMPRESSED, Ramp(0)),
      Block(UNCOMPRESSED, Ramp(2)),
      Block(COMPRESSED, <<1, 1, 1, 2>>) }

\* what may follow them.  Well-formed: nothing; a RAW block of the full
\* capacity; a COMPRESSED block decoding to nothing.  Malformed: half a
\* header; a payload cut short; a header whose length exceeds the capacity,
\* with its payload; a COMPRESSED payload of odd length; one decoding to
\* more than the capacity.
ValidTails ==
    { <<>>,
      Block(UNCOMPRESSED, Ramp(compress_buffer_size)),
      Block(COMPRESSED, <<0, 1>>) }

BadTails ==
    { <<UNCOMPRESSED>>,
      <<UNCOMPRESSED, 2, 1>>,
      <<UNCOMPRESSED, compress_buffer_size + 1>> \o Ramp(compress_buffer_size + 1),
      Block(COMPRESSED, <<1>>),
      Block(COMPRESSED, <<compress_buffer_size + 1, 1>>) }

RECURSIVE Flatten(_)
Flatten(bs) == IF bs = <<>> THEN <<>> ELSE Head(bs) \o Flatten(Tail(bs))

BlockLists(n) == UNION { [1..k -> ValidBlocks] : k \in 0..n }

Files == { Flatten(bs) \o t : bs \in BlockLists(MaxBlocks), t \in ValidTails \cup BadTails }

SeqFiles == { Flatten(bs) \o t : bs \in BlockLists(MaxSeqBlocks), t \in ValidTails }

\* The block a well-formed writer put at offset c, read without the reader:
\* its decoded bytes and the offset of the block after it; ok is FALSE when
\* no whole, well-formed block begins at c.
NoBlock == [ok |-> FALSE, type |-> UNCOMPRESSED, length |-> 0, decoded |-> <<>>, next |-> 0]

BlockAt(f, c) ==
    IF c + HeaderSize > Len(f) THEN NoBlock
    ELSE LET type == f[c + 1]
             length == f[c + 2]
             payload == SubSeq(f, c + HeaderSize + 1, c + HeaderSize + length)
         IN IF length > compress_buffer_size \/ c + HeaderSize + length > Len(f)
            THEN NoBlock
            ELSE IF type = UNCOMPRESSED
            THEN [ok |-> TRUE, type |-> type, length |-> length, decoded |-> payload,
                  next |-> c + HeaderSize + length]
            ELSE IF length % 2 # 0 \/ Len(RunDecode(payload)) > compress_buffer_size
            THEN NoBlock
            ELSE [ok |-> TRUE, type |-> type, length |-> length,
                  decoded |-> RunDecode(payload), next |-> c + HeaderSize + length]

\* the offsets at which the blocks of a region begin, from offset c on, up to
\* and including the first offset where no well-formed block begins
RECURSIVE BlockStarts(_, _)
BlockStarts(f, c) ==
    IF c >= Len(f) \/ ~BlockAt(f, c).ok THEN <<c>>
    ELSE <<c>> \o BlockStarts(f, BlockAt(f, c).next)

Range(s) == { s[i] : i \in 1..Len(s) }

\* the arguments the calls are tried with: a position provider hands out the
\* offsets of blocks and the end of the region
SeekTargets(f) == Range(BlockStarts(f, 0)) \cup {Len(f)}
InBlockOffsets == {0, 1, 2, compress_buffer_size + 1}
SkipLengths == {0, 1, 2, 3, 4, compress_buffer_size + 3}

NoCall == [op |-> "none", c |-> 0, u |-> 0, n |-> 0, res |-> OK, reads |-> 0, seeks |-> 0,
           pulls |-> 0, again |-> FALSE]

\* the position source a caller hands to seek: the block's file offset, then
\* the offset inside the decoded block
PositionProvider(c, u) == [values |-> <<c, u>>, next |-> 0]

\* no skip call is in progress
NoSkip == [pc |-> "idle", skip_length |-> 0, byte_to_skip |-> 0, passes |-> 0, res |-> OK]

\* no second reader was constructed
NoReader == [file |-> <<>>]

\* init(): the reader allocates the buffer it owns
init_compressed_helper == "bufB"

\* the constructor (lines 37-47), then init()
InitReader(f) ==
    /\ file = f
    /\ file_cursor = 0
    /\ shared_buffer = "bufA"
    /\ compressed_helper = init_compressed_helper
    /\ uncompressed = NULL
    /\ current_compress_position = NoPosition
    /\ heap = [b \in BufIds |-> NewBuffer]
    /\ compressed_bytes_read = 0
    /\ uncompressed_bytes_read = 0
    /\ last = NoCall
    /\ nops = 0
    /\ hist = [loaded |-> <<>>, out |-> <<>>]
    /\ skipping = NoSkip
    /\ other = NoReader

Init == \E f \in Files : InitReader(f)

\* the reader's fields after a call
Install(s) ==
    /\ file_cursor' = s.file_cursor
    /\ shared_buffer' = s.shared_buffer
    /\ compressed_helper' = s.compressed_helper
    /\ uncompressed' = s.uncompressed
    /\ current_compress_position' = s.current_compress_position
    /\ heap' = s.heap
    /\ compressed_bytes_read' = s.compressed_bytes_read
    /\ uncompressed_bytes_read' = s.uncompressed_bytes_read

Called(op, c, u, n, a) ==
    /\ Install(a.st)
    /\ last' = [op |-> op, c |-> c, u |-> u, n |-> n, res |-> a.res,
                reads |-> a.st.reads, seeks |-> a.st.seeks, pulls |-> a.st.pulls,
                again |-> (last.op = op /\ last.c = c /\ last.u = u /\ last.n = n)]
    /\ nops' = nops + 1
    /\ UNCHANGED <<file, hist, skipping, other>>

\* a call of _assure_data
Fetch ==
    /\ nops < MaxOps
    /\ Called("fetch", 0, 0, 0, assure_data(file, Reader))

\* the caller takes k bytes out of the resident block
Get(k) ==
    /\ nops < MaxOps
    /\ uncompressed # NULL
    /\ k = 1 \/ k = remaining(heap[uncompressed])
    /\ k <= remaining(heap[uncompressed])
    /\ Called("get", 0, 0, k,
              [st |-> [Reader EXCEPT !.heap[uncompressed].position = @ + k], res |-> OK])

Seek(c, u) ==
    /\ nops < MaxOps
    /\ Called("seek", c, u, 0, seek_position(file, Reader, PositionProvider(c, u)))

Skip(n) ==
    /\ nops < MaxOps
    /\ Called("skip", 0, 0, n, skip(file, Reader, n))

Next ==
    \/ Fetch
    \/ \E k \in 1..compress_buffer_size : Get(k)
    \/ \E c \in SeekTargets(file), u \in InBlockOffsets : Seek(c, u)
    \/ \E n \in SkipLengths : Skip(n)

Spec == Init /\ [][Next]_vars

\* ------------------------------------------------------------- sequential reading
\* the blocks of a region from offset c on, as a writer put them there
RECURSIVE DecodedBlocks(_, _)
DecodedBlocks(f, c) ==
    IF c >= Len(f) \/ ~BlockAt(f, c).ok THEN <<>>
    ELSE <<[at |-> c, bytes |-> BlockAt(f, c).decoded]>>
         \o DecodedBlocks(f, BlockAt(f, c).next)

RECURSIVE AllBytes(_)
AllBytes(blocks) ==
    IF blocks = <<>> THEN <<>> ELSE Head(blocks).bytes \o AllBytes(Tail(blocks))

\* the bytes of the resident block not yet taken
Unread(b) == SubSeq(b.data, b.position + 1, b.limit)

InitSeq == \E f \in SeqFiles : InitReader(f)

\* the loader is called; a success is recorded with what it exposes
SeqFetch ==
    /\ last.op \in {"none", "get"}
    /\ LET a == assure_data(file, Reader)
       IN /\ Install(a.st)
          /\ last' = [NoCall EXCEPT !.op = "fetch", !.res = a.res,
                                    !.reads = a.st.reads, !.seeks = a.st.seeks]
          /\ hist' = IF a.res = OK
                     THEN [hist EXCEPT !.loaded =
                             Append(@, [at |-> a.st.current_compress_position,
                                        bytes |-> Unread(a.st.heap[a.st.uncompressed])])]
                     ELSE hist
    /\ nops' = nops + 1
    /\ UNCHANGED <<file, skipping, other>>

\* the caller takes every byte of the resident block
SeqConsume ==
    /\ last.op = "fetch" /\ last.res = OK
    /\ hist' = [hist EXCEPT !.out = @ \o Unread(heap[uncompressed])]
    /\ heap' = [heap EXCEPT ![uncompressed].position = heap[uncompressed].limit]
    /\ last' = [NoCall EXCEPT !.op = "get", !.n = remaining(heap[uncompressed])]
    /\ nops' = nops + 1
    /\ UNCHANGED <<file, file_cursor, shared_buffer, compressed_helper, uncompressed,
                   current_compress_position, compressed_bytes_read,
                   uncompressed_bytes_read, skipping, other>>

NextSeq == SeqFetch \/ SeqConsume

SpecSeq == InitSeq /\ [][NextSeq]_vars

IsPrefix(s, t) == Len(s) <= Len(t) /\ s = SubSeq(t, 1, Len(s))

\* C1: reading a region of well-formed blocks by calling the loader and taking
\* every byte of the resident block after each success loads the blocks once
\* each, in file order, each time exposing that block's decoded bytes; the
\* bytes taken are the decoded payloads in order, no call fails, and the
\* reading ends with StreamEof once all of them are taken.
C1_SequentialRoundTrip ==
    LET blocks == DecodedBlocks(file, 0)
        taken == IF last.op = "fetch" /\ last.res = OK
                 THEN SubSeq(hist.loaded, 1, Len(hist.loaded) - 1)
                 ELSE hist.loaded
    IN /\ last.res \in {OK, StreamEof}
       /\ IsPrefix(hist.loaded, blocks)
       /\ hist.out = AllBytes(taken)
       /\ last.res = StreamEof =>
            /\ hist.loaded = blocks
            /\ hist.out = AllBytes(blocks)
       /\ (last.op = "get" /\ Len(hist.loaded) = Len(blocks)) =>
            CursorEof(file, file_cursor)

\* a region mixing RAW and COMPRESSED blocks has been read to its end
C1_Witness ==
    /\ last.res = StreamEof
    /\ Len(hist.loaded) = MaxSeqBlocks
    /\ hist.out # <<>>
    /\ \E i, j \in 1..Len(hist.loaded) :
          /\ BlockAt(file, hist.loaded[i].at).type = UNCOMPRESSED
          /\ BlockAt(file, hist.loaded[j].at).type = COMPRESSED
          /\ hist.loaded[j].bytes # <<>>

\* ------------------------------------------------------------- the resident block
\* the decoded bytes the reader still has to deliver: the unread bytes of the
\* resident block, then the blocks from the file cursor on
Rest(unc, hp, cursor) ==
    (IF unc = NULL THEN <<>> ELSE Unread(hp[unc])) \o AllBytes(DecodedBlocks(file, cursor))

\* every block from offset c to the end of the region is well-formed
WellFormedFrom(f, c) ==
    LET starts == BlockStarts(f, c) IN c <= Len(f) /\ starts[Len(starts)] = Len(f)

\* the resident block, if any, is the decoded block at _current_compress_position
ResidentIsBlock(unc, hp, cur) ==
    unc # NULL =>
        /\ cur # NoPosition
        /\ BlockAt(file, cur).ok
        /\ Contents(hp[unc]) = BlockAt(file, cur).decoded
        /\ hp[unc].position <= hp[unc].limit

\* C2: whenever seek(c, u) returns success, whatever calls came before it,
\* the active buffer holds the decoded bytes of the block at file offset c,
\* its read position is u and _current_compress_position is c.
C2_SeekLandsOnBlock ==
    (last.op = "seek" /\ last.res = OK) =>
        /\ uncompressed # NULL
        /\ BlockAt(file, last.c).ok
        /\ Contents(heap[uncompressed]) = BlockAt(file, last.c).decoded
        /\ heap[uncompressed].position = last.u
        /\ current_compress_position = last.c

\* C3: skip(N), for N from 1 up to the decoded bytes left in a well-formed
\* rest of the stream (N equal to all of them included), returns success, and
\* the bytes still to be read afterwards are those bytes without their first N.
C3_SkipWithinStream ==
    [][ ( /\ last'.op = "skip"
          /\ last'.n >= 1
          /\ ResidentIsBlock(uncompressed, heap, current_compress_position)
          /\ WellFormedFrom(file, file_cursor)
          /\ last'.n <= Len(Rest(uncompressed, heap, file_cursor)) )
        => /\ last'.res = OK
           /\ Rest(uncompressed', heap', file_cursor')
                = Drop(Rest(uncompressed, heap, file_cursor), last'.n) ]_vars

\* C4: whenever the loader returns success the active buffer is non-empty and
\* has at least one unread byte.
C4_LoaderLeavesData ==
    (last.op = "fetch" /\ last.res = OK) =>
        /\ uncompressed # NULL
        /\ remaining(heap[uncompressed]) > 0

\* C5: in every reachable state, also after a call returned an error, at
\* most one block is resident, and the active buffer is empty or holds the
\* decoded contents of the block at _current_compress_position.
C5_ResidentBlock ==
    /\ uncompressed \in {NULL, compressed_helper}
    /\ ResidentIsBlock(uncompressed, heap, current_compress_position)

\* the reader's fields and the buffers are what they were before the call
ReaderUnchanged ==
    UNCHANGED <<file_cursor, shared_buffer, compressed_helper, uncompressed,
                current_compress_position, heap, compressed_bytes_read,
                uncompressed_bytes_read>>

\* C6: a seek to the pair the previous call, also a seek, was given, with a
\* block resident after that first seek, leaves the reader as the first seek
\* left it and returns what it returned, without a file seek or a file read.
C6_SeekTwice ==
    [][ ( /\ last.op = "seek"
          /\ uncompressed # NULL
          /\ last'.op = "seek"
          /\ last'.c = last.c
          /\ last'.u = last.u )
        => /\ ReaderUnchanged
           /\ last'.res = last.res
           /\ last'.reads = 0
           /\ last'.seeks = 0 ]_vars

\* a block behind the first one was loaded by a seek into its middle, and the
\* same seek was made again
C6_Witness ==
    /\ nops = 2
    /\ last.op = "seek" /\ last.again /\ last.res = OK
    /\ last.c > 0 /\ last.u > 0
    /\ uncompressed # NULL
    /\ heap[uncompressed].position = last.u
    /\ compressed_bytes_read = HeaderSize + BlockAt(file, last.c).length

\* C7: skip(N) with N greater than the decoded bytes left, the rest of the
\* region being well-formed, returns StreamEof with every byte consumed: no
\* unread byte in the resident block and the file cursor at its bound.
C7_SkipPastEnd ==
    [][ ( /\ last'.op = "skip"
          /\ WellFormedFrom(file, file_cursor)
          /\ last'.n > Len(Rest(uncompressed, heap, file_cursor)) )
        => /\ last'.res = StreamEof
           /\ Rest(uncompressed', heap', file_cursor') = <<>>
           /\ uncompressed' # NULL => remaining(heap'[uncompressed']) = 0
           /\ CursorEof(file, file_cursor') ]_vars

\* a skip longer than the two or more blocks it went through ended in StreamEof
C7_Witness ==
    /\ last.op = "skip" /\ last.res = StreamEof
    /\ last.reads >= 4
    /\ uncompressed_bytes_read > 0
    /\ last.n > uncompressed_bytes_read
    /\ CursorEof(file, file_cursor)

\* C8: with no unread byte resident and the file cursor at its bound, the
\* loader returns StreamEof without a header read and changes nothing.
C8_EofAtBoundary ==
    [][ ( /\ last'.op = "fetch"
          /\ uncompressed = NULL \/ remaining(heap[uncompressed]) = 0
          /\ CursorEof(file, file_cursor) )
        => /\ last'.res = StreamEof
           /\ last'.reads = 0
           /\ ReaderUnchanged ]_vars

\* the last block of a region was consumed to its end and the loader called
C8_Witness ==
    /\ last.op = "fetch" /\ last.res = StreamEof
    /\ uncompressed # NULL
    /\ heap[uncompressed].limit > 0
    /\ remaining(heap[uncompressed]) = 0
    /\ file_cursor = Len(file)
    /\ BlockAt(file, current_compress_position).next = Len(file)

\* C9: a loader call that reads a header is turned away with OutOfBounds
\* exactly when the header's length exceeds _compress_buffer_size (a length
\* equal to it is accepted); it has then read the header only, and the
\* buffers, the pointers to them, _current_compress_position and the byte
\* counters are what they were.
C9_OversizedHeader ==
    [][ ( /\ last'.op = "fetch"
          /\ ~has_data(Reader)
          /\ file_cursor + HeaderSize <= Len(file) )
        => /\ last'.res = OutOfBounds <=> file[file_cursor + 2] > compress_buffer_size
           /\ last'.res = OutOfBounds =>
                /\ last'.reads = 1
                /\ file_cursor' = file_cursor + HeaderSize
                /\ UNCHANGED <<shared_buffer, compressed_helper, uncompressed,
                               current_compress_position, heap,
                               compressed_bytes_read, uncompressed_bytes_read>> ]_vars

\* the loader met a header of length capacity + 1 with a block resident
C9_Witness ==
    /\ last.op = "fetch" /\ last.res = OutOfBounds
    /\ uncompressed # NULL
    /\ file[file_cursor] = compress_buffer_size + 1
    /\ file_cursor + compress_buffer_size + 1 <= Len(file)

\* C10: a loader call that takes a RAW block exchanges the buffers: the active
\* buffer is the buffer the shared slot held before, with position 0, limit
\* header.length and the payload as contents, and the shared slot holds the
\* reader's former spare buffer; the shared slot and the spare buffer are
\* never the same buffer.
C10_RawExchange ==
    /\ [](shared_buffer # compressed_helper)
    /\ [][ ( /\ last'.op = "fetch" /\ last'.res = OK /\ last'.reads = 2
             /\ file[file_cursor + 1] = UNCOMPRESSED )
           => /\ uncompressed' = shared_buffer
              /\ compressed_helper' = shared_buffer
              /\ shared_buffer' = compressed_helper
              /\ heap'[uncompressed'].position = 0
              /\ heap'[uncompressed'].limit = file[file_cursor + 2]
              /\ Contents(heap'[uncompressed'])
                   = SubSeq(file, file_cursor + HeaderSize + 1,
                            file_cursor + HeaderSize + file[file_cursor + 2])
              /\ heap'[shared_buffer'] = heap[compressed_helper] ]_vars

\* a second RAW block was taken: the buffers went back to where they began
C10_Witness ==
    /\ last.op = "fetch" /\ last.res = OK /\ last.reads = 2
    /\ BlockAt(file, current_compress_position).type = UNCOMPRESSED
    /\ current_compress_position > 0
    /\ heap[uncompressed].limit > 0
    /\ uncompressed = "bufB"
    /\ shared_buffer = "bufA"

C12_SeekPullsTwo ==
    /\ last.pulls = (IF last.op = "seek" THEN 2 ELSE 0)
    /\ (last.op = "seek" /\ last.res = OK) =>
          /\ current_compress_position = last.c
          /\ heap[uncompressed].position = last.u
    /\ (last.op = "seek" /\ last.seeks = 1 /\ last.reads <= 1) =>
          file_cursor \in {last.c, last.c + HeaderSize}

\* a seek on the reuse path that failed with a position error
C12_Witness ==
    /\ nops = 2
    /\ last.op = "seek" /\ last.again
    /\ last.seeks = 0 /\ last.reads = 0
    /\ last.res = PositionError
    /\ last.pulls = 2
    /\ last.c > 0

\* C14: skip(N) with a block resident and 1 <= N <= its unread bytes (N equal
\* to them included) reads nothing from the file: the file cursor,
\* available(), _current_compress_position and the byte counters are what
\* they were before the call.
C14_SkipInsideBlock ==
    [][ ( /\ last'.op = "skip"
          /\ uncompressed # NULL
          /\ last'.n >= 1
          /\ last'.n <= remaining(heap[uncompressed]) )
        => /\ last'.reads = 0
           /\ available' = available
           /\ UNCHANGED <<file_cursor, current_compress_position,
                          compressed_bytes_read, uncompressed_bytes_read>> ]_vars

\* C16: a call returns StreamEof only with the file cursor at the end of the
\* region and no unread byte in the active buffer.  A loader call with
\* nothing unread and the cursor before the end returns, and never as
\* StreamEof: a read error when less than a header is left or the payload is
\* cut short, OutOfBounds for an oversized header, the decompressor's error
\* when it fails; an in-block offset beyond the limit is a position error.
\* A seek whose block offset is the end of the region returns StreamEof and
\* leaves the active buffer empty.
C16_ErrorKinds ==
    [][ /\ last'.res = StreamEof =>
              /\ last'.op \in {"fetch", "seek", "skip"}
              /\ CursorEof(file, file_cursor')
              /\ uncompressed' = NULL \/ remaining(heap'[uncompressed']) = 0
        /\ ( /\ last'.op = "fetch"
             /\ ~has_data(Reader)
             /\ ~CursorEof(file, file_cursor) )
           => LET length == file[file_cursor + 2]
                  block == BlockAt(file, file_cursor)
              IN last'.res =
                   (IF file_cursor + HeaderSize > Len(file) THEN IoError
                    ELSE IF length > compress_buffer_size THEN OutOfBounds
                    ELSE IF file_cursor + HeaderSize + length > Len(file) THEN IoError
                    ELSE IF ~block.ok THEN DecompressError
                    ELSE OK)
        /\ (last'.op = "seek" /\ last'.res = PositionError) =>
              /\ uncompressed' # NULL
              /\ last'.u > heap'[uncompressed'].limit
        /\ (last'.op = "seek" /\ last'.c = Len(file)) =>
              /\ last'.res = StreamEof
              /\ uncompressed' = NULL ]_vars

\* with a block resident, a seek to the end of the region returned StreamEof
\* and emptied the active buffer
C16_Witness ==
    /\ nops = 2
    /\ last.op = "seek" /\ last.c = Len(file) /\ last.res = StreamEof
    /\ uncompressed = NULL
    /\ current_compress_position # NoPosition
    /\ compressed_bytes_read > 0

\* C17: a loader call made with unread bytes in the active buffer returns
\* success without a file read and changes nothing: the file cursor, the
\* shared slot, the spare buffer, the active buffer and its contents,
\* position and limit, _current_compress_position and the byte counters are
\* what they were; hence a loader call repeated without taking a byte is
\* such a call.
C17_LoaderIdempotent ==
    [][ ( /\ last'.op = "fetch"
          /\ uncompressed # NULL
          /\ remaining(heap[uncompressed]) > 0 )
        => /\ last'.res = OK
           /\ last'.reads = 0
           /\ last'.seeks = 0
           /\ ReaderUnchanged ]_vars

\* the loader was called with the last byte of a block unread
C17_Witness ==
    /\ nops = 2
    /\ last.op = "fetch" /\ last.res = OK /\ last.reads = 0
    /\ uncompressed # NULL
    /\ remaining(heap[uncompressed]) = 1
    /\ heap[uncompressed].position > 0

\* C18: the byte counters never decrease.  Over a loader call or a seek,
\* which fetch at most one block, compressed_bytes_read grows by HeaderSize +
\* header.length when the header and the payload of a block were both read
\* (also when decoding it then fails) and by nothing otherwise, and
\* uncompressed_bytes_read grows by the limit of the decoded block when the
\* fetch completed and by nothing otherwise: not on a seek that reuses the
\* resident block, a loader call that returns at once, StreamEof or a fetch
\* that failed.
C18_Counters ==
    [][ /\ compressed_bytes_read' >= compressed_bytes_read
        /\ uncompressed_bytes_read' >= uncompressed_bytes_read
        /\ last'.op \in {"fetch", "seek"} =>
             LET at == IF last'.op = "seek" THEN last'.c ELSE file_cursor
                 loads == IF last'.op = "seek"
                          THEN ~(uncompressed # NULL /\ current_compress_position = at)
                          ELSE uncompressed = NULL \/ remaining(heap[uncompressed]) = 0
                 header_read == loads /\ at + HeaderSize <= Len(file)
                 length == file[at + 2]
                 both_read == /\ header_read
                              /\ length <= compress_buffer_size
                              /\ at + HeaderSize + length <= Len(file)
                 completed == both_read /\ BlockAt(file, at).ok
             IN /\ compressed_bytes_read' = compressed_bytes_read
                      + (IF both_read THEN HeaderSize + length ELSE 0)
                /\ uncompressed_bytes_read' = uncompressed_bytes_read
                      + (IF completed THEN heap'[uncompressed'].limit ELSE 0)
                /\ completed =>
                      heap'[uncompressed'].limit = Len(BlockAt(file, at).decoded) ]_vars

\* a COMPRESSED block was read whole and could not be decoded: its stored
\* bytes are counted, decoded bytes are not
C18_Witness ==
    /\ last.op = "fetch" /\ last.res = DecompressError
    /\ compressed_bytes_read > uncompressed_bytes_read + 2 * HeaderSize
    /\ uncompressed_bytes_read > 0
    /\ compressed_bytes_read = file_cursor

\* C20: seek(c, u), c being the offset of a well-formed block: with u greater
\* than the block's decoded length it returns a position error, which is not
\* StreamEof, on the reuse path as on the reload path, and the block at c is
\* resident afterwards; with u equal to the decoded length it succeeds and
\* the block at c is resident with no unread byte.
C20_SeekOffsetRange ==
    [][ ( /\ last'.op = "seek"
          /\ BlockAt(file, last'.c).ok )
        => LET decoded == BlockAt(file, last'.c).decoded
           IN /\ last'.u > Len(decoded) =>
                    /\ last'.res = PositionError
                    /\ uncompressed' # NULL
                    /\ current_compress_position' = last'.c
                    /\ Contents(heap'[uncompressed']) = decoded
              /\ last'.u = Len(decoded) =>
                    /\ last'.res = OK
                    /\ uncompressed' # NULL
                    /\ current_compress_position' = last'.c
                    /\ Contents(heap'[uncompressed']) = decoded
                    /\ remaining(heap'[uncompressed']) = 0 ]_vars

\* ------------------------------------------------------------- seeking again
\* Seeks and loader calls, one call more than in Spec, over regions one block
\* shorter: long enough for a seek to a block that was loaded before a seek
\* that failed and left the active buffer empty.
ReseekFiles ==
    { Flatten(bs) \o t : bs \in BlockLists(MaxBlocks - 1), t \in ValidTails \cup BadTails }

ReseekOffsets == {1, compress_buffer_size + 1}

InitReseek == \E f \in ReseekFiles : InitReader(f)

Refetch ==
    /\ nops < MaxOps + 1
    /\ Called("fetch", 0, 0, 0, assure_data(file, Reader))

Reseek(c, u) ==
    /\ nops < MaxOps + 1
    /\ Called("seek", c, u, 0, seek_position(file, Reader, PositionProvider(c, u)))

NextReseek ==
    \/ Refetch
    \/ \E c \in SeekTargets(file), u \in ReseekOffsets : Reseek(c, u)

SpecReseek == InitReseek /\ [][NextReseek]_vars

\* C13: a seek reuses the resident block exactly when the active buffer is
\* non-empty and _current_compress_position is the offset asked for.  It
\* then moves no cursor and reads nothing, and the buffers, the pointers to
\* them and the counters are what they were but for the active buffer's read
\* position, set to the offset asked for when that is within the limit.  With
\* the active buffer empty, a seek to the offset _current_compress_position
\* holds moves the cursor there and fetches the block again.
C13_SeekReuse ==
    [][ last'.op = "seek" =>
          LET resident == uncompressed # NULL
              same == current_compress_position = last'.c
          IN /\ (resident /\ same) <=> last'.seeks = 0
             /\ (resident /\ same) =>
                   /\ last'.reads = 0
                   /\ UNCHANGED <<file_cursor, shared_buffer, compressed_helper,
                                  uncompressed, current_compress_position,
                                  compressed_bytes_read, uncompressed_bytes_read>>
                   /\ \A b \in DOMAIN heap :
                         /\ heap'[b].data = heap[b].data
                         /\ heap'[b].limit = heap[b].limit
                         /\ b # uncompressed => heap'[b] = heap[b]
                   /\ heap'[uncompressed].position =
                         (IF last'.u <= heap[uncompressed].limit
                          THEN last'.u ELSE heap[uncompressed].position)
             /\ (~resident /\ same) =>
                   /\ last'.seeks = 1
                   /\ last'.reads = 2
                   /\ file_cursor' = last'.c + HeaderSize + file[last'.c + 2]
                   /\ compressed_bytes_read' =
                         compressed_bytes_read + HeaderSize + file[last'.c + 2]
                   /\ uncompressed' # NULL
                   /\ Contents(heap'[uncompressed']) = BlockAt(file, last'.c).decoded ]_vars

\* the only block of a region was loaded, a seek to the end of the region
\* emptied the active buffer, and a seek to the block's offset fetched it again
C13_Witness ==
    /\ nops = 3
    /\ last.op = "seek" /\ last.c = 0 /\ last.seeks = 1 /\ last.reads = 2
    /\ Len(file) > HeaderSize
    /\ Len(file) = HeaderSize + file[2]
    /\ compressed_bytes_read = 2 * Len(file)
    /\ current_compress_position = 0
    /\ uncompressed # NULL

\* ------------------------------------------------------------- skip, pass by pass
\* A skip call taken one pass of its loop at a time, on a fresh reader or
\* after one seek.
InitSkip == \E f \in Files : InitReader(f)

SeekBeforeSkip(c, u) ==
    /\ nops = 0
    /\ skipping.pc = "idle"
    /\ Called("seek", c, u, 0, seek_position(file, Reader, PositionProvider(c, u)))

\* lines 140-150: the first _assure_data and the locals of the loop
SkipEnter(skip_length) ==
    /\ nops <= 1
    /\ skipping.pc = "idle"
    /\ LET a == assure_data(file, Reader)
       IN /\ Install(a.st)
          /\ skipping' = [pc |-> IF a.res = OK THEN "loop" ELSE "done",
                          skip_length |-> skip_length,
                          byte_to_skip |-> skip_length,
                          passes |-> 0,
                          res |-> a.res]
    /\ nops' = nops + 1
    /\ UNCHANGED <<file, last, hist, other>>

\* lines 152-160: one pass of the loop, and its test
SkipPass ==
    /\ skipping.pc = "loop"
    /\ LET a == skip_pass(file, Reader, skipping.byte_to_skip)
       IN /\ Install(a.st)
          /\ skipping' = [skipping EXCEPT
                            !.pc = IF a.byte_to_skip # 0 /\ a.res = OK
                                   THEN "loop" ELSE "done",
                            !.byte_to_skip = a.byte_to_skip,
                            !.passes = @ + 1,
                            !.res = a.res]
    /\ UNCHANGED <<file, last, nops, hist, other>>

NextSkip ==
    \/ \E c \in SeekTargets(file), u \in InBlockOffsets : SeekBeforeSkip(c, u)
    \/ \E n \in SkipLengths : SkipEnter(n)
    \/ SkipPass

SpecSkip == InitSkip /\ [][NextSkip]_vars

\* what a skip call still has to get through: bytes to skip and bytes of file
SkipVariant == skipping.byte_to_skip + CursorRemain(file, file_cursor)

\* C19: every skip call returns, whatever skip_length and the layout of the
\* region, blocks of decoded length 0 included.  Each pass of its loop takes
\* at least one byte off the amount to skip, or moves the file cursor on by
\* at least a header, or is the last; so the bytes to skip plus the bytes of
\* file left, never negative, get fewer with every pass but the last.
C19_SkipTerminates ==
    /\ [](SkipVariant >= 0)
    /\ [][ (skipping.pc = "loop" /\ skipping'.passes = skipping.passes + 1) =>
             /\ \/ skipping'.byte_to_skip < skipping.byte_to_skip
                \/ file_cursor' >= file_cursor + HeaderSize
                \/ skipping'.pc = "done"
             /\ skipping'.pc = "loop" => SkipVariant' < SkipVariant ]_vars

\* a skip got through two blocks of decoded length 0 and a block with bytes,
\* one pass for each, before it returned
C19_Witness ==
    /\ skipping.pc = "done"
    /\ skipping.passes >= 3
    /\ skipping.byte_to_skip = 0
    /\ skipping.skip_length > 0
    /\ BlockAt(file, 0).ok /\ BlockAt(file, 0).length = 0
    /\ BlockAt(file, HeaderSize).ok /\ BlockAt(file, HeaderSize).length = 0

\* ------------------------------------------------------------- two readers, one slot
\* Two readers constructed on the same shared slot, each with the spare buffer
\* its init() allocated, each on its own region; their calls interleave whole.
SharedBufIds == BufIds \cup {"bufC"}

\* regions for the two readers: blocks with bytes, then a last block that is
\* RAW and full or COMPRESSED and not decodable
SharedFiles ==
    { Flatten(bs) \o t :
        bs \in [1..(MaxBlocks - 1) ->
                  {Block(UNCOMPRESSED, Ramp(2)), Block(COMPRESSED, <<1, 1, 1, 2>>)}],
        t \in {Block(UNCOMPRESSED, Ramp(compress_buffer_size)), Block(COMPRESSED, <<1>>)} }

SharedSkipLengths == {3}

InitShared ==
    \E f, g \in SharedFiles :
        /\ file = f
        /\ file_cursor = 0
        /\ shared_buffer = "bufA"
        /\ compressed_helper = init_compressed_helper
        /\ uncompressed = NULL
        /\ current_compress_position = NoPosition
        /\ heap = [b \in SharedBufIds |-> NewBuffer]
        /\ compressed_bytes_read = 0
        /\ uncompressed_bytes_read = 0
        /\ last = [NoCall EXCEPT !.n = 0] @@ [who |-> 0]
        /\ nops = 0
        /\ hist = [loaded |-> <<>>, out |-> <<>>]
        /\ skipping = NoSkip
        /\ other = [file |-> g,
                    file_cursor |-> 0,
                    compressed_helper |-> "bufC",
                    uncompressed |-> NULL,
                    current_compress_position |-> NoPosition,
                    compressed_bytes_read |-> 0,
                    uncompressed_bytes_read |-> 0]

\* the second reader and what it points to, as one record, at the start of a call
OtherReader ==
    [file_cursor |-> other.file_cursor,
     shared_buffer |-> shared_buffer,
     compressed_helper |-> other.compressed_helper,
     uncompressed |-> other.uncompressed,
     current_compress_position |-> other.current_compress_position,
     heap |-> heap,
     compressed_bytes_read |-> other.compressed_bytes_read,
     uncompressed_bytes_read |-> other.uncompressed_bytes_read,
     reads |-> 0,
     seeks |-> 0,
     pulls |-> 0]

\* the second reader's fields, the shared slot and the buffers after a call of
\* the second reader
InstallOther(s) ==
    /\ other' = [other EXCEPT !.file_cursor = s.file_cursor,
                              !.compressed_helper = s.compressed_helper,
                              !.uncompressed = s.uncompressed,
                              !.current_compress_position = s.current_compress_position,
                              !.compressed_bytes_read = s.compressed_bytes_read,
                              !.uncompressed_bytes_read = s.uncompressed_bytes_read]
    /\ shared_buffer' = s.shared_buffer
    /\ heap' = s.heap
    /\ UNCHANGED <<file_cursor, compressed_helper, uncompressed,
                   current_compress_position, compressed_bytes_read,
                   uncompressed_bytes_read>>

\* a whole call of reader who: a is what it returns, applied to that reader
SharedCalled(who, op, c, u, n, a) ==
    /\ nops < MaxOps + 1
    /\ IF who = 1 THEN Install(a.st) /\ other' = other ELSE InstallOther(a.st)
    /\ last' = [who |-> who, op |-> op, c |-> c, u |-> u, n |-> n, res |-> a.res,
                reads |-> a.st.reads, seeks |-> a.st.seeks, pulls |-> a.st.pulls,
                again |-> FALSE]
    /\ nops' = nops + 1
    /\ UNCHANGED <<file, hist, skipping>>

FileOf(who) == IF who = 1 THEN file ELSE other.file

ReaderOf(who) == IF who = 1 THEN Reader ELSE OtherReader

SharedFetch(who) ==
    SharedCalled(who, "fetch", 0, 0, 0, assure_data(FileOf(who), ReaderOf(who)))

SharedSeek(who, c, u) ==
    SharedCalled(who, "seek", c, u, 0,
                 seek_position(FileOf(who), ReaderOf(who), PositionProvider(c, u)))

SharedSkip(who, n) ==
    SharedCalled(who, "skip", 0, 0, n, skip(FileOf(who), ReaderOf(who), n))

NextShared ==
    \E who \in {1, 2} :
        \/ SharedFetch(who)
        \/ \E c \in SeekTargets(FileOf(who)) : SharedSeek(who, c, 1)
        \/ \E n \in SharedSkipLengths : SharedSkip(who, n)

SpecShared == InitShared /\ [][NextShared]_vars

\* C15: with two readers on one shared slot and their calls interleaved
\* whole, the shared slot, the first reader's spare buffer and the second
\* reader's spare buffer are always three different buffers, each reader's
\* active buffer is empty or its own spare buffer, and a call of one reader
\* changes neither the other reader's fields nor its active buffer's
\* contents, position or limit.
C15_SharedSlot ==
    /\ [](/\ Cardinality({shared_buffer, compressed_helper, other.compressed_helper}) = 3
          /\ uncompressed \in {NULL, compressed_helper}
          /\ other.uncompressed \in {NULL, other.compressed_helper})
    /\ [][ /\ last'.who = 1 =>
                /\ other' = other
                /\ other.uncompressed # NULL =>
                      heap'[other.uncompressed] = heap[other.uncompressed]
           /\ last'.who = 2 =>
                /\ UNCHANGED <<file_cursor, compressed_helper, uncompressed,
                               current_compress_position, compressed_bytes_read,
                               uncompressed_bytes_read>>
                /\ uncompressed # NULL =>
                      heap'[uncompressed] = heap[uncompressed] ]_vars

\* both readers have a block resident, and the first reader has since taken
\* a second RAW block through the shared slot: its active buffer is the
\* buffer the second reader began with, and the slot holds the buffer the
\* first reader's first block was in
C15_Witness ==
    /\ nops = 3
    /\ last.who = 1 /\ last.res = OK /\ last.reads = 2
    /\ uncompressed = "bufC"
    /\ shared_buffer = "bufA"
    /\ other.uncompressed = "bufB"
    /\ remaining(heap[other.uncompressed]) > 0
    /\ remaining(heap[uncompressed]) > 0

====
